---- MODULE Spec2Model ----
(***************************************************************************)
(* PDF ingestion pipeline of the SBA underwriting application:            *)
(* api/_lib/pdf-parser.ts (parsePDFFromBuffer, splitIntoChunks).           *)
(*                                                                         *)
(* Strings are sequences of UTF-16 code units, buffers are sequences of    *)
(* bytes.  Two specifications share the definitions of the chunker:        *)
(*   ChunkerSpec   splitIntoChunks, one step per statement group, on every *)
(*                 text up to MaxLen code units;                           *)
(*   PipelineSpec  parsePDFFromBuffer, with the text-extraction library as *)
(*                 an environment that returns or throws.                  *)
(***************************************************************************)
EXTENDS Integers, Sequences, FiniteSets, TLC

(* ---------------------------------------------------------------- bounds *)
MaxLen == 7
MaxPages == 2
MaxChunkSize == 4
MaxBuf == 5
MaxExtractLen == 2
MaxTruncLen == 3
MaxHeaderTokens == 2

(* ------------------------------------------------------------ characters *)
CR == 13
LF == 10
SP == 32

\* Code units String.prototype.trim strips (white space and line
\* terminators); of these the texts below hold CR, LF and the space.
WhiteSpace == {9, 10, 11, 12, 13, 32, 160, 65279}

\* The code units texts are drawn from: CR, LF, space and the letter a.
Alphabet == {CR, LF, SP, 97}

\* "[No text content extracted]"
Placeholder ==
  << 91, 78, 111, 32, 116, 101, 120, 116, 32, 99, 111, 110, 116, 101, 110,
     116, 32, 101, 120, 116, 114, 97, 99, 116, 101, 100, 93 >>

CHUNK_SIZE == 4000

Min(a, b) == IF a < b THEN a ELSE b
Max(a, b) == IF a > b THEN a ELSE b

\* Math.ceil(a / b) for a >= 0, b > 0.
Ceil(a, b) == (a + b - 1) \div b

StringsUpTo(alphabet, n) == UNION {[1..k -> alphabet] : k \in 0..n}

(* ------------------------------------------------------ string functions *)
RECURSIVE TrimStart(_)
TrimStart(s) ==
  IF s = <<>> \/ s[1] \notin WhiteSpace THEN s ELSE TrimStart(Tail(s))

RECURSIVE TrimEnd(_)
TrimEnd(s) ==
  IF s = <<>> \/ s[Len(s)] \notin WhiteSpace
  THEN s
  ELSE TrimEnd(SubSeq(s, 1, Len(s) - 1))

\* String.prototype.trim
Trim(s) == TrimEnd(TrimStart(s))

\* Length of the run of LF that starts at position i of s.
RECURSIVE LFRun(_, _)
LFRun(s, i) ==
  IF i > Len(s) \/ s[i] # LF THEN 0 ELSE 1 + LFRun(s, i + 1)

\* .replace(/\r\n/g, '\n'): left to right, matches do not overlap.
RECURSIVE ReplaceCRLFFrom(_, _)
ReplaceCRLFFrom(s, i) ==
  IF i > Len(s) THEN <<>>
  ELSE IF s[i] = CR /\ i < Len(s) /\ s[i + 1] = LF
       THEN <<LF>> \o ReplaceCRLFFrom(s, i + 2)
       ELSE <<s[i]>> \o ReplaceCRLFFrom(s, i + 1)

ReplaceCRLF(s) == ReplaceCRLFFrom(s, 1)

\* .replace(/\n{3,}/g, '\n\n'): the quantifier is greedy, a match is a
\* whole run of three or more LF.
RECURSIVE CollapseLFFrom(_, _)
CollapseLFFrom(s, i) ==
  IF i > Len(s) THEN <<>>
  ELSE IF LFRun(s, i) >= 3
       THEN <<LF, LF>> \o CollapseLFFrom(s, i + LFRun(s, i))
       ELSE <<s[i]>> \o CollapseLFFrom(s, i + 1)

CollapseLF(s) == CollapseLFFrom(s, 1)

\* A normalizer that forgets the final trim.
NormalizeNoTrim(text) == CollapseLF(ReplaceCRLF(text))

\* The runs of LF collapsed before the CRLF are replaced.
NormalizeCollapseFirst(text) == Trim(ReplaceCRLF(CollapseLF(text)))

\* cleanText: CRLF -> LF, runs of 3+ LF -> 2 LF, trim.
Normalize(text) == Trim(CollapseLF(ReplaceCRLF(text)))

\* .split(/\n\n+/): the pieces between the runs of two or more LF; a string
\* without a match is its own only piece.
RECURSIVE SplitFrom(_, _, _)
SplitFrom(s, i, piece) ==
  IF i > Len(s) THEN <<piece>>
  ELSE IF LFRun(s, i) >= 2
       THEN <<piece>> \o SplitFrom(s, i + LFRun(s, i), <<>>)
       ELSE SplitFrom(s, i + 1, Append(piece, s[i]))

SplitParagraphs(cleanText) == SplitFrom(cleanText, 1, <<>>)

(* --------------------------------------------------------------- chunker *)
\* The chunk returned for a text that is empty after the clean-up.
PlaceholderChunk ==
  [chunkIndex |-> 0, text |-> Placeholder, pageHint |-> 1]

\* The emptiness test applied to the text before the clean-up.
IsBlankRaw(text, cleanText) == text = <<>>

\* if (!cleanText)
IsBlank(text, cleanText) == cleanText = <<>>

\* The close test without the separator's two characters.
MustCloseNoSeparator(currentChunk, trimmedParagraph, chunkSize) ==
  /\ Len(currentChunk) + Len(trimmedParagraph) > chunkSize
  /\ currentChunk # <<>>

\* The close test with >= for >.
MustCloseAtLimit(currentChunk, trimmedParagraph, chunkSize) ==
  /\ Len(currentChunk) + Len(trimmedParagraph) + 2 >= chunkSize
  /\ currentChunk # <<>>

\* The close test on the length of the buffer alone.
MustCloseBufferOnly(currentChunk, trimmedParagraph, chunkSize) ==
  /\ Len(currentChunk) > chunkSize
  /\ currentChunk # <<>>

\* currentChunk.length + trimmedParagraph.length + 2 > chunkSize && currentChunk
MustClose(currentChunk, trimmedParagraph, chunkSize) ==
  /\ Len(currentChunk) + Len(trimmedParagraph) + 2 > chunkSize
  /\ currentChunk # <<>>

\* The estimate over the chunks pushed and two more.
PageHintOneMore(chunkIndex, emitted, numPages) ==
  Min(Ceil((chunkIndex + 1) * numPages, Max(emitted + 2, 1)), numPages)

\* A zero-based estimate rounded down.
PageHintFloor(chunkIndex, emitted, numPages) ==
  Min((chunkIndex * numPages) \div Max(emitted + 1, 1), numPages)

\* Math.min(Math.ceil((chunkIndex + 1) * (numPages / Math.max(chunks.length
\* + 1, 1))), numPages), in exact arithmetic.  In floating point the product
\* can differ from the exact one by a rounding error; the result is the
\* same whenever the exact quotient is an integer no larger than numPages,
\* the only case the walk produces, because the ceiling absorbs an error
\* downwards and the minimum an error upwards.
PageHint(chunkIndex, emitted, numPages) ==
  Min(Ceil((chunkIndex + 1) * numPages, Max(emitted + 1, 1)), numPages)

\* The index of the chunk after a closed one, not incremented.
NextIndexSame(chunkIndex) == chunkIndex

\* chunkIndex++
NextIndex(chunkIndex) == chunkIndex + 1

\* The separator appended without the paragraph.
AccumulateSeparatorOnly(currentChunk, trimmedParagraph) ==
  currentChunk \o (IF currentChunk # <<>> THEN <<LF, LF>> ELSE <<>>)

\* Paragraphs joined by a single LF.
AccumulateOneLF(currentChunk, trimmedParagraph) ==
  currentChunk \o (IF currentChunk # <<>> THEN <<LF>> ELSE <<>>)
               \o trimmedParagraph

\* The buffer assigned, not appended to.
AccumulateOverwrite(currentChunk, trimmedParagraph) == trimmedParagraph

\* currentChunk += (currentChunk ? '\n\n' : '') + trimmedParagraph
Accumulate(currentChunk, trimmedParagraph) ==
  currentChunk \o (IF currentChunk # <<>> THEN <<LF, LF>> ELSE <<>>)
               \o trimmedParagraph

\* The state of the walk: the buffer, the next index, the chunks pushed.
WalkStart == [currentChunk |-> <<>>, chunkIndex |-> 0, chunks |-> <<>>]

\* One iteration of `for (const paragraph of paragraphs)`.
LoopBody(w, paragraph, numPages, chunkSize) ==
  LET trimmedParagraph == Trim(paragraph)
      close == MustClose(w.currentChunk, trimmedParagraph, chunkSize)
      closed ==
        IF close
        THEN [currentChunk |-> <<>>,
              chunkIndex |-> NextIndex(w.chunkIndex),
              chunks |-> Append(w.chunks,
                 [chunkIndex |-> w.chunkIndex,
                  text |-> Trim(w.currentChunk),
                  pageHint |->
                    PageHint(w.chunkIndex, Len(w.chunks), numPages)])]
        ELSE w
  IN IF trimmedParagraph = <<>>
     THEN w
     ELSE [closed EXCEPT
             !.currentChunk = Accumulate(closed.currentChunk, trimmedParagraph)]

\* After the loop: the last chunk, then the guard against zero chunks.
AfterLoop(w, cleanText, numPages, chunkSize) ==
  LET withLast ==
        IF w.currentChunk # <<>>
        THEN Append(w.chunks,
               [chunkIndex |-> w.chunkIndex,
                text |-> Trim(w.currentChunk),
                pageHint |-> numPages])
        ELSE w.chunks
  IN IF Len(withLast) = 0
     THEN <<[chunkIndex |-> 0,
             text |-> SubSeq(cleanText, 1, Min(chunkSize, Len(cleanText))),
             pageHint |-> 1]>>
     ELSE withLast

RECURSIVE Walk(_, _, _, _, _)
Walk(w, paragraphs, i, numPages, chunkSize) ==
  IF i > Len(paragraphs)
  THEN w
  ELSE Walk(LoopBody(w, paragraphs[i], numPages, chunkSize),
            paragraphs, i + 1, numPages, chunkSize)

\* splitIntoChunks as a function of its arguments.
splitIntoChunks(text, numPages, chunkSize) ==
  LET cleanText == Normalize(text)
  IN IF IsBlank(text, cleanText)
     THEN <<PlaceholderChunk>>
     ELSE AfterLoop(Walk(WalkStart, SplitParagraphs(cleanText), 1,
                         numPages, chunkSize),
                    cleanText, numPages, chunkSize)

(* ------------------------------------------------------ parsePDFFromBuffer *)
\* The bytes buffers are drawn from: % P D F p and 0xEF.
Bytes == {37, 80, 68, 70, 112, 239}

\* '%PDF'
PDF_MAGIC == <<37, 80, 68, 70>>

\* The message of an Error is a sequence of string pieces, so that the
\* template of line 59 is the concatenation it is in the code.
NoError == <<>>
EmptyInput == <<"Empty or invalid PDF file">>
InvalidFormat == <<"File is not a valid PDF">>

\* buffer.slice(start, end)
Slice(buffer, start, end) == SubSeq(buffer, start + 1, Min(end, Len(buffer)))

\* Buffer.prototype.toString(): UTF-8 decoding.  An ASCII byte is its own
\* code unit; 0xEF opens a three-byte sequence that none of the bytes of
\* Bytes continues, and decodes to U+FFFD.
BufferToString(bytes) ==
  [i \in 1..Len(bytes) |-> IF bytes[i] < 128 THEN bytes[i] ELSE 65533]

\* String.prototype.startsWith
StartsWith(s, prefix) ==
  /\ Len(s) >= Len(prefix)
  /\ SubSeq(s, 1, Len(prefix)) = prefix

\* String.prototype.toLowerCase on the letters of Bytes.
ToLowerCase(s) ==
  [i \in 1..Len(s) |-> IF s[i] \in 65..90 THEN s[i] + 32 ELSE s[i]]

\* A header test that ignores case.
HasPDFHeaderAnyCase(buffer) ==
  LET header == BufferToString(Slice(buffer, 0, 5))
  IN StartsWith(ToLowerCase(header), ToLowerCase(PDF_MAGIC))

\* header = buffer.slice(0, 5).toString(); header.startsWith('%PDF')
HasPDFHeader(buffer) ==
  LET header == BufferToString(Slice(buffer, 0, 5))
  IN StartsWith(header, PDF_MAGIC)

\* The two checks in the other order.
ValidateHeaderFirst(buffer) ==
  IF ~HasPDFHeader(buffer) THEN InvalidFormat
  ELSE IF Len(buffer) = 0 THEN EmptyInput
  ELSE NoError

\* Lines 22-33: the message of the Error thrown, or NoError.
Validate(buffer) ==
  IF Len(buffer) = 0 THEN EmptyInput
  ELSE IF ~HasPDFHeader(buffer) THEN InvalidFormat
  ELSE NoError

\* Extraction on the bytes after the header.
ExtractArgSkipHeader(buffer) == Slice(buffer, 5, Len(buffer))

\* The first argument of extractText(buffer, { mergePages: true }).
ExtractArg(buffer) == buffer

\* (text as string[]).join('\n\n')
RECURSIVE JoinPages(_)
JoinPages(pages) ==
  IF pages = <<>> THEN <<>>
  ELSE IF Len(pages) = 1 THEN pages[1]
  ELSE pages[1] \o <<LF, LF>> \o JoinPages(Tail(pages))

\* typeof text === 'string' ? text : text.join('\n\n')
FullText(answer) ==
  IF answer.isString THEN answer.text ELSE JoinPages(answer.text)

\* The page count an answer reports is <<n>>, or <<>> when the answer has no
\* totalPages (undefined).
\* The reported count taken as it is.
NumPagesNoDefault(totalPages) ==
  IF totalPages = <<>> THEN 0 ELSE totalPages[1]

\* totalPages || 1: undefined and 0 are falsy.
NumPages(totalPages) ==
  IF totalPages = <<>> \/ totalPages[1] = 0 THEN 1 ELSE totalPages[1]

\* Lines 41-53: the value returned for an answer of the extractor.
Parsed(answer) ==
  LET fullText == FullText(answer)
      pages == NumPages(answer.totalPages)
  IN [text |-> fullText,
      numPages |-> pages,
      chunks |-> splitIntoChunks(fullText, pages, CHUNK_SIZE)]

\* What extractText can resolve to: a string, or one string per page.
Answers ==
  [isString : {TRUE}, text : StringsUpTo(Alphabet, MaxExtractLen),
   totalPages : {<<>>} \cup {<<n>> : n \in 0..MaxPages}]
  \cup
  [isString : {FALSE},
   text : StringsUpTo(StringsUpTo({LF, 97}, 1), 2),
   totalPages : {<<>>} \cup {<<n>> : n \in 0..MaxPages}]

\* What extractText can reject with: an Error with a message, or another
\* value.
Thrown == {[isError |-> TRUE, message |-> "Invalid PDF structure"],
           [isError |-> FALSE, message |-> ""]}

\* Line 59: the message of the error thrown from the catch block.
ExtractionFailed(thrown) ==
  <<"PDF parsing failed: ">>
    \o <<IF thrown.isError THEN thrown.message ELSE "Unknown error">>

NoResult == [text |-> <<>>, numPages |-> 0, chunks |-> <<>>]

(* ------------------------------------------------------------ truncateText *)
\* maxLength: number = 1000
DEFAULT_MAX_LENGTH == 1000

\* '...'
Ellipsis == <<46, 46, 46>>

\* String.prototype.substring(start, end) for 0 <= start <= end.
Substring(s, start, end) == SubSeq(s, start + 1, Min(end, Len(s)))

\* An argument list holds maxLength as <<n>>, or <<>> when it is omitted;
\* the default applies to an omitted argument.
MaxLengthOf(arg) == IF arg = <<>> THEN DEFAULT_MAX_LENGTH ELSE arg[1]

\* The test with < for <=.
truncateTextStrict(text, maxLength) ==
  IF Len(text) < maxLength THEN text
  ELSE Substring(text, 0, maxLength) \o Ellipsis

\* Lines 134-137.
truncateText(text, maxLength) ==
  IF Len(text) <= maxLength THEN text
  ELSE Substring(text, 0, maxLength) \o Ellipsis

\* The texts truncateText is applied to: every short text, and texts of
\* DEFAULT_MAX_LENGTH and DEFAULT_MAX_LENGTH + 1 letters.
TruncateTexts ==
  StringsUpTo(Alphabet, MaxTruncLen)
    \cup {[i \in 1..DEFAULT_MAX_LENGTH |-> 97],
          [i \in 1..(DEFAULT_MAX_LENGTH + 1) |-> 97]}

(* ------------------------------------------------------------------ state *)
VARIABLES
  \* splitIntoChunks
  text, numPages, chunkSize,      \* the arguments
  cleanText, paragraphs, next,    \* the cleaned text, its pieces, loop position
  walk,                           \* currentChunk, chunkIndex, chunks
  chunks,                         \* the returned array
  pc,                             \* "start", "loop", "done"; "off" elsewhere
  \* parsePDFFromBuffer
  buffer,                         \* the argument
  ppc,                            \* "start", "extracting", "returned", "thrown"
  extractCalls,                   \* the arguments extractText was called with
  settled,                        \* how extractText settled: <<>> while pending,
                                  \* <<"resolved", answer>>, <<"rejected", thrown>>
  result,                         \* the ParsedPDF returned
  error,                          \* the message of the Error thrown, or NoError
  \* truncateText
  ttext, tmax,                    \* the arguments; tmax is <<>> when omitted
  tout,                           \* the string returned
  tpc,                            \* "start", "done"; "off" elsewhere
  \* concurrent calls of parsePDFFromBuffer
  given,                          \* per call: the buffer it was called with
  answered,                       \* per call: how its extractText settled
  frames,                         \* per call: its bindings and position
  \* the parse handler and the database rows of one document
  storage,                        \* where the file is stored, and its bytes
  doc,                            \* the Document row
  rows,                           \* the DocumentChunk rows of the document
  activities,                     \* the number of DOCUMENT_PARSED activities
  clock,                          \* the time new Date() gives
  reqs,                           \* per request: its bindings and position
  \* one deal: its rows, and the upload, delete and analyze handlers
  dealStatus,                     \* Deal.status
  documents,                      \* the Document rows of the deal
  files,                          \* the files in storage, by document id
  dealActivities,                 \* the number of Activity rows of the deal
  runs,                           \* the AnalysisRun rows, in creation order
  configured,                     \* OPENAI_API_KEY is set
  uploads,                        \* per upload request: bindings, position
  deletes,                        \* per delete request: bindings, position
  analyzes                        \* per analyze request: bindings, position

chunkerVars ==
  <<text, numPages, chunkSize, cleanText, paragraphs, next, walk, chunks, pc>>

pipelineVars == <<buffer, ppc, extractCalls, settled, result, error>>

truncateVars == <<ttext, tmax, tout, tpc>>

concurrentVars == <<given, answered, frames>>

handlerVars == <<storage, doc, rows, activities, clock, reqs>>

dealVars ==
  <<dealStatus, documents, files, dealActivities, runs, configured,
    uploads, deletes, analyzes>>

vars ==
  <<chunkerVars, pipelineVars, truncateVars, concurrentVars, handlerVars,
    dealVars>>

ChunkerOff ==
  /\ text = <<>> /\ numPages = 1 /\ chunkSize = CHUNK_SIZE
  /\ cleanText = <<>> /\ paragraphs = <<>> /\ next = 1
  /\ walk = WalkStart /\ chunks = <<>> /\ pc = "off"

PipelineOff ==
  /\ buffer = <<>> /\ ppc = "off" /\ extractCalls = <<>> /\ settled = <<>>
  /\ result = NoResult /\ error = NoError

TruncateOff == ttext = <<>> /\ tmax = <<>> /\ tout = <<>> /\ tpc = "off"

ConcurrentOff == given = <<>> /\ answered = <<>> /\ frames = <<>>

HandlerOff ==
  /\ storage = <<>> /\ doc = <<>> /\ rows = <<>>
  /\ activities = 0 /\ clock = 0 /\ reqs = <<>>

DealOff ==
  /\ dealStatus = "" /\ documents = {} /\ files = {}
  /\ dealActivities = 0 /\ runs = <<>> /\ configured = FALSE
  /\ uploads = <<>> /\ deletes = <<>> /\ analyzes = <<>>

(* ----------------------------------------------- splitIntoChunks, stepwise *)
ChunkerInit ==
  /\ text \in StringsUpTo(Alphabet, MaxLen)
  /\ numPages \in 1..MaxPages
  /\ chunkSize \in 2..MaxChunkSize
  /\ cleanText = <<>> /\ paragraphs = <<>> /\ next = 1
  /\ walk = WalkStart /\ chunks = <<>> /\ pc = "start"
  /\ PipelineOff
  /\ TruncateOff
  /\ ConcurrentOff
  /\ HandlerOff
  /\ DealOff

\* Lines 71-85: clean up, return the placeholder or split into paragraphs.
CleanUp ==
  /\ pc = "start"
  /\ cleanText' = Normalize(text)
  /\ IF IsBlank(text, cleanText')
     THEN /\ chunks' = <<PlaceholderChunk>>
          /\ paragraphs' = paragraphs
          /\ pc' = "done"
     ELSE /\ paragraphs' = SplitParagraphs(cleanText')
          /\ chunks' = chunks
          /\ pc' = "loop"
  /\ UNCHANGED <<text, numPages, chunkSize, next, walk>>
  /\ UNCHANGED <<pipelineVars, truncateVars, concurrentVars, handlerVars, dealVars>>

\* Lines 90-110: one paragraph.
Iterate ==
  /\ pc = "loop"
  /\ next <= Len(paragraphs)
  /\ walk' = LoopBody(walk, paragraphs[next], numPages, chunkSize)
  /\ next' = next + 1
  /\ UNCHANGED <<text, numPages, chunkSize, cleanText, paragraphs, chunks, pc>>
  /\ UNCHANGED <<pipelineVars, truncateVars, concurrentVars, handlerVars, dealVars>>

\* Lines 112-130: the last chunk, the zero-chunk guard, return.
Return ==
  /\ pc = "loop"
  /\ next > Len(paragraphs)
  /\ chunks' = AfterLoop(walk, cleanText, numPages, chunkSize)
  /\ pc' = "done"
  /\ UNCHANGED <<text, numPages, chunkSize, cleanText, paragraphs, next, walk>>
  /\ UNCHANGED <<pipelineVars, truncateVars, concurrentVars, handlerVars, dealVars>>

ChunkerNext == CleanUp \/ Iterate \/ Return

ChunkerSpec == ChunkerInit /\ [][ChunkerNext]_vars

(* ------------------------------------------------------ the whole pipeline *)
PipelineInit ==
  /\ buffer \in StringsUpTo(Bytes, MaxBuf)
  /\ ppc = "start" /\ extractCalls = <<>> /\ settled = <<>>
  /\ result = NoResult /\ error = NoError
  /\ ChunkerOff
  /\ TruncateOff
  /\ ConcurrentOff
  /\ HandlerOff
  /\ DealOff

\* Lines 22-39: the checks, then the call of extractText; the function
\* suspends at the await.
Check ==
  /\ ppc = "start"
  /\ IF Validate(buffer) = NoError
     THEN /\ extractCalls' = Append(extractCalls, ExtractArg(buffer))
          /\ ppc' = "extracting"
          /\ error' = error
     ELSE /\ error' = Validate(buffer)
          /\ ppc' = "thrown"
          /\ extractCalls' = extractCalls
  /\ UNCHANGED <<buffer, settled, result>>
  /\ UNCHANGED <<chunkerVars, truncateVars, concurrentVars, handlerVars, dealVars>>

\* Lines 39-53: extractText resolves.
ExtractResolves ==
  /\ ppc = "extracting"
  /\ \E answer \in Answers :
       /\ settled' = <<"resolved", answer>>
       /\ result' = Parsed(answer)
  /\ ppc' = "returned"
  /\ UNCHANGED <<buffer, extractCalls, error>>
  /\ UNCHANGED <<chunkerVars, truncateVars, concurrentVars, handlerVars, dealVars>>

\* The degraded policy: a rejection of extractText is absorbed and a
\* result for a fixed text is returned.
ExtractRejectsDegraded ==
  /\ ppc = "extracting"
  /\ \E thrown \in Thrown :
       /\ settled' = <<"rejected", thrown>>
       /\ result' = Parsed([isString |-> TRUE, text |-> Placeholder,
                            totalPages |-> <<1>>])
  /\ ppc' = "returned"
  /\ UNCHANGED <<buffer, extractCalls, error>>
  /\ UNCHANGED <<chunkerVars, truncateVars, concurrentVars, handlerVars, dealVars>>

\* Lines 54-60: extractText rejects.
ExtractRejects ==
  /\ ppc = "extracting"
  /\ \E thrown \in Thrown :
       /\ settled' = <<"rejected", thrown>>
       /\ error' = ExtractionFailed(thrown)
  /\ ppc' = "thrown"
  /\ UNCHANGED <<buffer, extractCalls, result>>
  /\ UNCHANGED <<chunkerVars, truncateVars, concurrentVars, handlerVars, dealVars>>

PipelineNext == Check \/ ExtractResolves \/ ExtractRejects

PipelineSpec == PipelineInit /\ [][PipelineNext]_vars

(* ------------------------------------------------------------ truncateText *)
TruncateInit ==
  /\ ttext \in TruncateTexts
  /\ tmax \in {<<>>} \cup {<<n>> : n \in 0..MaxTruncLen}
  /\ tout = <<>> /\ tpc = "start"
  /\ ChunkerOff
  /\ PipelineOff
  /\ ConcurrentOff
  /\ HandlerOff
  /\ DealOff

\* A call of truncateText.
Truncate ==
  /\ tpc = "start"
  /\ tout' = truncateText(ttext, MaxLengthOf(tmax))
  /\ tpc' = "done"
  /\ UNCHANGED <<ttext, tmax>>
  /\ UNCHANGED <<chunkerVars, pipelineVars, concurrentVars, handlerVars, dealVars>>

TruncateNext == Truncate

TruncateSpec == TruncateInit /\ [][TruncateNext]_vars

(* ================================================================ claims *)
\* The texts of a chunk sequence, in order.
Texts(cs) == [i \in 1..Len(cs) |-> cs[i].text]

\* Array.prototype.join('\n\n') of a sequence of strings.
RECURSIVE JoinBlankLine(_)
JoinBlankLine(ss) ==
  IF ss = <<>> THEN <<>>
  ELSE IF Len(ss) = 1 THEN ss[1]
  ELSE ss[1] \o <<LF, LF>> \o JoinBlankLine(Tail(ss))

\* s holds a blank-line separator: two LF in a row.
HasBlankLine(s) == \E i \in 1..(Len(s) - 1) : s[i] = LF /\ s[i + 1] = LF

\* t is one of the paragraphs of the cleaned text, trimmed.
IsInputParagraph(t) == \E j \in 1..Len(paragraphs) : Trim(paragraphs[j]) = t

NonBlank(s) == Trim(s) # <<>>

AllWhite(s) == \A i \in 1..Len(s) : s[i] \in {CR, LF, SP}

\* The first four bytes of the buffer are % P D F.
BeginsWithMagic ==
  /\ Len(buffer) >= 4
  /\ buffer[1] = 37 /\ buffer[2] = 80 /\ buffer[3] = 68 /\ buffer[4] = 70

C2_IndexContiguity ==
  pc = "done" => \A i \in 1..Len(chunks) : chunks[i].chunkIndex = i - 1

\* Three chunks were returned.
C2_Witness == pc = "done" /\ Len(chunks) >= 3

(* ------------------------------------------------------------------- C3 *)
\* C3 as stated: the chunk texts joined with a blank line are the cleaned
\* text from which the paragraphs that are empty after trimming were
\* removed.
C3_Original ==
  pc = "done" =>
    JoinBlankLine(Texts(chunks)) =
      JoinBlankLine(SelectSeq(SplitParagraphs(Normalize(text)), NonBlank))

\* C3 amended: when the cleaned text is not empty, the chunk texts joined
\* with a blank line are the paragraphs of the cleaned text, each trimmed,
\* without those empty after trimming, joined with a blank line; when it is
\* empty the only chunk text is the placeholder.
C3_Reassembly ==
  pc = "done" =>
    IF Normalize(text) = <<>>
    THEN Texts(chunks) = <<Placeholder>>
    ELSE LET kept == SelectSeq(SplitParagraphs(Normalize(text)), NonBlank)
         IN JoinBlankLine(Texts(chunks)) =
              JoinBlankLine([j \in 1..Len(kept) |-> Trim(kept[j])])

\* Two chunks were returned for a text one of whose paragraphs had white
\* space to trim.
C3_Witness ==
  /\ pc = "done"
  /\ Len(chunks) >= 2
  /\ \E j \in 1..Len(paragraphs) : Trim(paragraphs[j]) # paragraphs[j]

(* ------------------------------------------------------------------- C4 *)
\* C4: the clean-up is idempotent: cleaning the cleaned text again returns
\* it unchanged.
C4_Idempotent ==
  pc # "start" => Normalize(cleanText) = cleanText

(* ------------------------------------------------------------------- C5 *)
\* C5: every chunk pushed or returned has 1 <= pageHint <= numPages.
C5_PageHintBounds ==
  /\ \A i \in 1..Len(walk.chunks) :
       1 <= walk.chunks[i].pageHint /\ walk.chunks[i].pageHint <= numPages
  /\ \A i \in 1..Len(chunks) :
       1 <= chunks[i].pageHint /\ chunks[i].pageHint <= numPages

\* Chunks were closed during the walk and a final chunk added, for a
\* document of more than one page.
C5_Witness ==
  pc = "done" /\ Len(chunks) >= 3 /\ Len(walk.chunks) >= 2 /\ numPages >= 2

(* ------------------------------------------------------------------- C6 *)
\* C6: for a text of white space only (it is empty after the clean-up) the
\* result is the one chunk of index 0, text "[No text content extracted]"
\* and pageHint 1, whatever numPages.
C6_EmptyPlaceholder ==
  (pc = "done" /\ (AllWhite(text) \/ cleanText = <<>>)) =>
    chunks = <<[chunkIndex |-> 0, text |-> Placeholder, pageHint |-> 1]>>

\* A text of CR, LF and spaces was chunked for a document of two pages.
C6_Witness ==
  /\ pc = "done" /\ numPages >= 2
  /\ Len(text) >= 3 /\ AllWhite(text)
  /\ \E i, j, k \in 1..Len(text) : text[i] = CR /\ text[j] = LF /\ text[k] = SP

(* ------------------------------------------------------------------- C7 *)
\* C7: the returned sequence is not empty, and every chunk text is not
\* empty and neither starts nor ends with white space.
C7_NonEmptyTrimmed ==
  pc = "done" =>
    /\ Len(chunks) >= 1
    /\ \A i \in 1..Len(chunks) :
         /\ chunks[i].text # <<>>
         /\ chunks[i].text[1] \notin WhiteSpace
         /\ chunks[i].text[Len(chunks[i].text)] \notin WhiteSpace

\* Two chunks were returned for a text that starts and ends with white
\* space.
C7_Witness ==
  /\ pc = "done" /\ Len(chunks) >= 2
  /\ text[1] \in WhiteSpace /\ text[Len(text)] \in WhiteSpace

(* ------------------------------------------------------------------- C8 *)
\* C8: a non-empty buffer that does not begin with the bytes %PDF is
\* rejected with 'File is not a valid PDF'; a buffer that begins with them
\* passes both checks and reaches extractText.
C8_MagicHeader ==
  ppc \notin {"off", "start"} =>
    /\ (Len(buffer) > 0 /\ ~BeginsWithMagic) =>
         (ppc = "thrown" /\ error = InvalidFormat /\ extractCalls = <<>>)
    /\ BeginsWithMagic =>
         (error \notin {InvalidFormat, EmptyInput} /\ extractCalls # <<>>)

\* %pDF, which differs from the literal by case only, was rejected.
C8_Witness ==
  ppc = "thrown" /\ buffer = <<37, 112, 68, 70>> /\ error = InvalidFormat

(* ------------------------------------------------------------------- C9 *)
\* C9: the empty buffer is rejected with 'Empty or invalid PDF file', never
\* with 'File is not a valid PDF'.
C9_EmptyInput ==
  (ppc \notin {"off", "start"} /\ Len(buffer) = 0) =>
    (ppc = "thrown" /\ error = EmptyInput)

\* The empty buffer was rejected.
C9_Witness == ppc = "thrown" /\ buffer = <<>> /\ error # NoError

(* ------------------------------------------------------------------ C10 *)
\* C10: extractText is called only for a buffer that passed both checks,
\* at most once, with the buffer's bytes unchanged; it is not called when
\* the function throws 'Empty or invalid PDF file' or 'File is not a valid
\* PDF'.
C10_FailFast ==
  /\ extractCalls # <<>> =>
       /\ Len(buffer) > 0
       /\ BeginsWithMagic
       /\ extractCalls = <<buffer>>
       /\ ppc \in {"extracting", "returned", "thrown"}
  /\ error \in {EmptyInput, InvalidFormat} => extractCalls = <<>>
  /\ ppc = "start" => extractCalls = <<>>

\* extractText was called with a buffer longer than the header and
\* resolved.
C10_Witness ==
  ppc = "returned" /\ Len(buffer) = 5 /\ extractCalls = <<buffer>>

(* ------------------------------------------------------------------ C11 *)
\* C11: when extractText rejects, parsePDFFromBuffer throws 'PDF parsing
\* failed: ' followed by the message of the Error it rejected with
\* ('Unknown error' for a value that is no Error) and returns nothing; an
\* invocation that ended either returned a whole ParsedPDF (text, numPages
\* >= 1, at least one chunk) and threw nothing, or threw and returned
\* nothing.
C11_StrictFailure ==
  /\ (settled # <<>> /\ settled[1] = "rejected") =>
       /\ ppc = "thrown"
       /\ result = NoResult
       /\ Len(error) = 2
       /\ error[1] = "PDF parsing failed: "
       /\ error[2] = (IF settled[2].isError THEN settled[2].message
                                            ELSE "Unknown error")
  /\ ppc = "thrown" => (result = NoResult /\ error # NoError)
  /\ ppc = "returned" =>
       /\ error = NoError
       /\ settled[1] = "resolved"
       /\ result.numPages >= 1
       /\ Len(result.chunks) >= 1

\* extractText rejected with an Error and the function threw.
C11_Witness ==
  /\ ppc = "thrown" /\ settled # <<>> /\ settled[1] = "rejected"
  /\ settled[2].isError
  /\ error = <<"PDF parsing failed: ", "Invalid PDF structure">>

(* ------------------------------------------------------------------ C16 *)
\* C16: the numPages returned is 1 when extractText reports no page count
\* or 0, and the reported count otherwise; it is at least 1, every pageHint
\* lies in 1..numPages, and the last chunk of a text that is not blank has
\* pageHint numPages.
C16_PageCountDefault ==
  ppc = "returned" =>
    LET reported == settled[2].totalPages
        last == result.chunks[Len(result.chunks)]
    IN /\ (reported = <<>> \/ reported = <<0>>) => result.numPages = 1
       /\ (reported # <<>> /\ reported # <<0>>) =>
            result.numPages = reported[1]
       /\ result.numPages >= 1
       /\ \A i \in 1..Len(result.chunks) :
            /\ 1 <= result.chunks[i].pageHint
            /\ result.chunks[i].pageHint <= result.numPages
       /\ ~AllWhite(result.text) => last.pageHint = result.numPages

\* A text was returned for an answer without a page count.
C16_Witness ==
  /\ ppc = "returned" /\ settled[2].totalPages = <<>>
  /\ ~AllWhite(result.text) /\ result.numPages = 1

(* ------------------------------------------------------------------ C12 *)
\* String.prototype.split('\n\n'): the pieces between the occurrences of
\* two LF, found left to right.
RECURSIVE SplitOnBlankLineFrom(_, _, _)
SplitOnBlankLineFrom(s, i, piece) ==
  IF i > Len(s) THEN <<piece>>
  ELSE IF s[i] = LF /\ i < Len(s) /\ s[i + 1] = LF
       THEN <<piece>> \o SplitOnBlankLineFrom(s, i + 2, <<>>)
       ELSE SplitOnBlankLineFrom(s, i + 1, Append(piece, s[i]))

\* The paragraphs a chunk text holds.
ParagraphsOf(t) == SplitOnBlankLineFrom(t, 1, <<>>)

\* A paragraph of 1500 letters, and the chunks of the walk over three of
\* them with chunkSize 4000 and 10 pages.
Paragraph1500 == [i \in 1..1500 |-> 97]

ScenarioChunks ==
  AfterLoop(Walk(WalkStart,
                 <<Paragraph1500, Paragraph1500, Paragraph1500>>, 1,
                 10, CHUNK_SIZE),
            Paragraph1500, 10, CHUNK_SIZE)

\* Two chunks, indices 0 and 1: paragraphs 1 and 2, then paragraph 3.
C12_Scenario ==
  /\ Len(ScenarioChunks) = 2
  /\ ScenarioChunks[1].chunkIndex = 0
  /\ ScenarioChunks[1].text =
       Paragraph1500 \o <<LF, LF>> \o Paragraph1500
  /\ ScenarioChunks[2].chunkIndex = 1
  /\ ScenarioChunks[2].text = Paragraph1500

\* Each chunk but the last was closed because its text, the separator and
\* the first paragraph of the next chunk exceed chunkSize together.
C12_Consecutive ==
  pc = "done" =>
    \A i \in 1..(Len(chunks) - 1) :
      Len(chunks[i].text) + Len(ParagraphsOf(chunks[i + 1].text)[1]) + 2
        > chunkSize

\* The shape of the example within the bounds: three paragraphs of which
\* two fit a chunk and the third does not.
C12_Witness ==
  /\ pc = "done" /\ chunkSize = 4 /\ numPages = 2
  /\ text = <<97, LF, LF, 97, LF, LF, 97>>
  /\ Texts(chunks) = << <<97, LF, LF, 97>>, <<97>> >>

\* A step of the walk over a paragraph that is not blank pushes a chunk,
\* the buffer, exactly when the buffer is not empty and buffer, paragraph
\* and separator exceed chunkSize together.
C12_ClosedExactlyWhen ==
  (pc = "loop" /\ next' = next + 1 /\ Trim(paragraphs[next]) # <<>>) =>
    LET p == Trim(paragraphs[next])
        mustClose == /\ walk.currentChunk # <<>>
                     /\ Len(walk.currentChunk) + Len(p) + 2 > chunkSize
    IN IF mustClose
       THEN /\ Len(walk'.chunks) = Len(walk.chunks) + 1
            /\ walk'.chunks[Len(walk'.chunks)].text = walk.currentChunk
            /\ walk'.currentChunk = p
       ELSE /\ walk'.chunks = walk.chunks
            /\ Len(walk'.currentChunk) >= Len(walk.currentChunk) + Len(p)

\* C12: greedy paragraph packing: a chunk is closed exactly when the buffer
\* is not empty and len(buffer) + len(paragraph) + 2 > chunkSize; so for
\* consecutive chunks i and i+1, len(text i) + len(first paragraph of chunk
\* i+1) + 2 > chunkSize; and three paragraphs of 1500 characters with
\* chunkSize 4000 give two chunks, indices 0 and 1, holding paragraphs 1
\* and 2 and paragraph 3.
\* The example with its own numbers is evaluated on the walk, not on one
\* text of 4504 code units, and once: on the step that returns from its
\* counterpart within the bounds, C12_Witness.
C12_GreedyPacking ==
  [][/\ C12_ClosedExactlyWhen
     /\ C12_Consecutive'
     /\ C12_Witness' => C12_Scenario]_vars

(* ------------------------------------------------------------------ C13 *)
\* C13: a paragraph longer than chunkSize is the whole text of a chunk:
\* it is not split and shares its chunk with no other paragraph.
C13_LongParagraphWhole ==
  pc = "done" =>
    \A j \in 1..Len(paragraphs) :
      Len(Trim(paragraphs[j])) > chunkSize =>
        \E i \in 1..Len(chunks) : chunks[i].text = Trim(paragraphs[j])

\* A paragraph longer than chunkSize was chunked next to another paragraph.
C13_Witness ==
  /\ pc = "done" /\ Len(chunks) >= 2
  /\ \E j \in 1..Len(paragraphs) : Len(Trim(paragraphs[j])) > chunkSize

(* ------------------------------------------------------------------ C14 *)
\* The paragraphs of the chunks, in order.
RECURSIVE ChunkParagraphs(_)
ChunkParagraphs(cs) ==
  IF cs = <<>> THEN <<>>
  ELSE ParagraphsOf(cs[1].text) \o ChunkParagraphs(Tail(cs))

\* The paragraphs of the cleaned text that are not blank, trimmed.
TextParagraphs(t) ==
  LET kept == SelectSeq(SplitParagraphs(Normalize(t)), NonBlank)
  IN [j \in 1..Len(kept) |-> Trim(kept[j])]

\* C14 as stated: for every text the paragraphs of the chunks, in order,
\* are the trimmed non-empty paragraphs of the cleaned text.
C14_Original ==
  pc = "done" => ChunkParagraphs(chunks) = TextParagraphs(text)

\* C14 amended: for every text that is not empty after the clean-up the
\* paragraphs of the chunks, in order, are the trimmed non-empty paragraphs
\* of the cleaned text; for a text that is empty after the clean-up, which
\* has no paragraph, the chunks hold the one paragraph of the placeholder.
C14_ParagraphPreservation ==
  pc = "done" =>
    IF Normalize(text) = <<>>
    THEN ChunkParagraphs(chunks) = <<Placeholder>>
    ELSE ChunkParagraphs(chunks) = TextParagraphs(text)

\* A chunk of two paragraphs was returned for a text with a blank
\* paragraph.
C14_Witness ==
  /\ pc = "done"
  /\ \E i \in 1..Len(chunks) : Len(ParagraphsOf(chunks[i].text)) >= 2
  /\ \E j \in 1..Len(paragraphs) : Trim(paragraphs[j]) = <<>>

(* ------------------------------------------------------------------ C15 *)
\* C15: the cleaned text has no three LF in a row and neither starts nor
\* ends with white space; the empty text is cleaned to the empty text.
C15_NormalizerOutput ==
  pc # "start" =>
    /\ \A i \in 1..(Len(cleanText) - 2) :
         ~(cleanText[i] = LF /\ cleanText[i + 1] = LF /\ cleanText[i + 2] = LF)
    /\ cleanText # <<>> =>
         /\ cleanText[1] \notin WhiteSpace
         /\ cleanText[Len(cleanText)] \notin WhiteSpace
    /\ text = <<>> => cleanText = <<>>

\* A text with leading white space and a CRLF was cleaned to a text with a
\* blank line that is at least three code units shorter.
C15_Witness ==
  /\ pc # "start"
  /\ HasBlankLine(cleanText)
  /\ Len(text) >= Len(cleanText) + 3
  /\ text[1] \in WhiteSpace
  /\ \E i \in 1..(Len(text) - 1) : text[i] = CR /\ text[i + 1] = LF

(* ------------------------------ parsePDFFromBuffer, calls running together *)
\* Two calls are in progress on one event loop.
Invocations == {1, 2}

\* The buffers the calls are given: empty, without the header, the header
\* alone, the header and one byte.
ConcurrentBuffers == {<<>>, <<80>>, PDF_MAGIC, PDF_MAGIC \o <<37>>}

\* What extractText resolves with in these runs.
ConcurrentAnswers ==
  {a \in Answers : /\ a.isString
                   /\ a.totalPages # <<>>
                   /\ \A k \in 1..Len(a.text) : a.text[k] = 97}

\* The bindings of a call at entry: its parameter, and nothing returned or
\* thrown.
FrameAtEntry(b) ==
  [buffer |-> b, pc |-> "start", result |-> NoResult, error |-> NoError]

\* One set of bindings for the module: a write by one call is seen by all.
BindModule(fs, i, frame) == [j \in Invocations |-> frame]

\* buffer, result, fullText, numPages and chunks are a parameter and consts
\* of the function body (lines 21, 39-45): each call has its own.
Bind(fs, i, frame) == [fs EXCEPT ![i] = frame]

ConcurrentInit ==
  /\ given \in [Invocations -> ConcurrentBuffers]
  /\ answered = [i \in Invocations |-> <<>>]
  /\ frames = [i \in Invocations |-> FrameAtEntry(given[i])]
  /\ ChunkerOff
  /\ PipelineOff
  /\ TruncateOff
  /\ HandlerOff
  /\ DealOff

\* Lines 22-39 in call i, up to the await.
CallCheck(i) ==
  /\ frames[i].pc = "start"
  /\ frames' =
       Bind(frames, i,
            IF Validate(frames[i].buffer) = NoError
            THEN [frames[i] EXCEPT !.pc = "extracting"]
            ELSE [frames[i] EXCEPT !.pc = "thrown",
                                   !.error = Validate(frames[i].buffer)])
  /\ UNCHANGED <<given, answered>>
  /\ UNCHANGED <<chunkerVars, pipelineVars, truncateVars, handlerVars, dealVars>>

\* Lines 39-53 in call i: its extractText resolves and it runs to return.
CallResolves(i) ==
  /\ frames[i].pc = "extracting"
  /\ \E answer \in ConcurrentAnswers :
       /\ answered' = [answered EXCEPT ![i] = <<"resolved", answer>>]
       /\ frames' = Bind(frames, i,
                         [frames[i] EXCEPT !.pc = "returned",
                                           !.result = Parsed(answer)])
  /\ UNCHANGED given
  /\ UNCHANGED <<chunkerVars, pipelineVars, truncateVars, handlerVars, dealVars>>

\* Lines 54-60 in call i: its extractText rejects.
CallRejects(i) ==
  /\ frames[i].pc = "extracting"
  /\ \E thrown \in Thrown :
       /\ answered' = [answered EXCEPT ![i] = <<"rejected", thrown>>]
       /\ frames' = Bind(frames, i,
                         [frames[i] EXCEPT !.pc = "thrown",
                                           !.error = ExtractionFailed(thrown)])
  /\ UNCHANGED given
  /\ UNCHANGED <<chunkerVars, pipelineVars, truncateVars, handlerVars, dealVars>>

ConcurrentNext ==
  \E i \in Invocations : CallCheck(i) \/ CallResolves(i) \/ CallRejects(i)

ConcurrentSpec == ConcurrentInit /\ [][ConcurrentNext]_vars

(* -------------------------------------- the parse handler of one document *)
\* Two requests POST /documents/:id/parse for the same document.
Requests == {1, 2}

Methods == {"POST", "OPTIONS", "GET"}

\* The Document row an upload creates.
NewDocument ==
  [parseStatus |-> "PENDING", parseError |-> NoError,
   parsedText |-> <<>>, parsedAt |-> <<>>]

\* A request that has not arrived. read is the parseStatus findUnique
\* returned; fetched and settled are what the storage and extractText
\* answered; status 0 means no response yet.
RequestAtEntry ==
  [pc |-> "idle", read |-> "", fetched |-> <<>>, settled |-> <<>>,
   parsedData |-> NoResult, message |-> NoError,
   status |-> 0, error |-> NoError]

\* Refusing a document that was parsed before as well.
AlreadyParsingOrParsed(document) ==
  document.parseStatus \in {"PARSING", "PARSED"}

\* Line 35.
AlreadyParsing(document) == document.parseStatus = "PARSING"

\* Lines 40-43.
ParsingUpdate(d) == [d EXCEPT !.parseStatus = "PARSING"]

\* The update without parseError: null.
ParsedUpdateKeepError(d, parsedData, now) ==
  [d EXCEPT !.parseStatus = "PARSED", !.parsedText = <<parsedData.text>>,
            !.parsedAt = <<now>>]

\* Lines 85-92.
ParsedUpdate(d, parsedData, now) ==
  [d EXCEPT !.parseStatus = "PARSED", !.parsedText = <<parsedData.text>>,
            !.parsedAt = <<now>>, !.parseError = NoError]

\* The update clearing the text of the earlier parse as well.
ErrorUpdateClearText(d, errorMessage) ==
  [d EXCEPT !.parseStatus = "ERROR", !.parseError = errorMessage,
            !.parsedText = <<>>, !.parsedAt = <<>>]

\* The update without the message.
ErrorUpdateStatusOnly(d, errorMessage) == [d EXCEPT !.parseStatus = "ERROR"]

\* Lines 127-133.
ErrorUpdate(d, errorMessage) ==
  [d EXCEPT !.parseStatus = "ERROR", !.parseError = errorMessage]

\* Line 55.
FetchFailed(statusLine) == <<"Failed to fetch PDF from storage: ", statusLine>>

\* How reading the stored bytes can end: fetch (line 52) answers ok with
\* the bytes, answers not ok, or rejects; fs.readFile (pdf-parser.ts line
\* 17) gives the bytes or rejects.
LoadOutcomes(st) ==
  IF st.kind = "http"
  THEN {<<"ok", st.bytes>>, <<"notok", "404 Not Found">>,
        <<"rejected", "fetch failed">>}
  ELSE {<<"ok", st.bytes>>,
        <<"rejected", "ENOENT: no such file or directory">>}

\* The message of what is thrown before extractText is called, NoError
\* when nothing is: lines 54-56, a rejection, or the checks of
\* parsePDFFromBuffer.
LoadError(outcome) ==
  IF outcome[1] = "ok" THEN Validate(outcome[2])
  ELSE IF outcome[1] = "notok" THEN FetchFailed(outcome[2])
  ELSE <<outcome[2]>>

\* What extractText resolves with in these runs.
HandlerAnswers == {a \in ConcurrentAnswers : a.totalPages = <<1>>}

HandlerInit ==
  /\ storage \in [kind : {"http", "local"}, bytes : ConcurrentBuffers]
  /\ doc = NewDocument
  /\ rows = <<>> /\ activities = 0 /\ clock = 0
  /\ reqs = [r \in Requests |-> RequestAtEntry]
  /\ ChunkerOff
  /\ PipelineOff
  /\ TruncateOff
  /\ ConcurrentOff
  /\ DealOff

Respond(r, code, msg) ==
  reqs' = [reqs EXCEPT ![r].pc = "done", ![r].status = code,
                       ![r].error = msg]

HandlerFrame == UNCHANGED <<chunkerVars, pipelineVars, truncateVars,
                            concurrentVars, storage, dealVars>>

\* Lines 11-37: the checks of the request, findUnique, and the test of the
\* status read.
FindDocument(r) ==
  /\ reqs[r].pc = "idle"
  /\ \E method \in Methods, hasId \in BOOLEAN :
       IF method = "OPTIONS" THEN Respond(r, 200, NoError)
       ELSE IF method # "POST" THEN Respond(r, 405, <<"Method not allowed">>)
       ELSE IF ~hasId THEN Respond(r, 400, <<"Document ID is required">>)
       ELSE IF AlreadyParsing(doc)
       THEN Respond(r, 409, <<"Document is already being parsed">>)
       ELSE reqs' = [reqs EXCEPT ![r].pc = "marking",
                                 ![r].read = doc.parseStatus]
  /\ UNCHANGED <<doc, rows, activities, clock>>
  /\ HandlerFrame

\* Lines 40-43.
SetParsing(r) ==
  /\ reqs[r].pc = "marking"
  /\ doc' = ParsingUpdate(doc)
  /\ reqs' = [reqs EXCEPT ![r].pc = "loading"]
  /\ UNCHANGED <<rows, activities, clock>>
  /\ HandlerFrame

\* Lines 49-66 up to the await of extractText: the bytes are fetched or
\* read and parsePDFFromBuffer checks them.
LoadBytes(r) ==
  /\ reqs[r].pc = "loading"
  /\ \E outcome \in LoadOutcomes(storage) :
       reqs' = [reqs EXCEPT
                  ![r].fetched = outcome,
                  ![r].message = LoadError(outcome),
                  ![r].pc = IF LoadError(outcome) = NoError
                            THEN "extracting" ELSE "failing"]
  /\ UNCHANGED <<doc, rows, activities, clock>>
  /\ HandlerFrame

\* extractText settles: parsePDFFromBuffer returns (line 62 or 66) or
\* throws into the catch of line 121.
Extract(r) ==
  /\ reqs[r].pc = "extracting"
  /\ \/ \E answer \in HandlerAnswers :
          reqs' = [reqs EXCEPT ![r].settled = <<"resolved", answer>>,
                               ![r].parsedData = Parsed(answer),
                               ![r].pc = "deleting"]
     \/ \E thrown \in Thrown :
          reqs' = [reqs EXCEPT ![r].settled = <<"rejected", thrown>>,
                               ![r].message = ExtractionFailed(thrown),
                               ![r].pc = "failing"]
  /\ UNCHANGED <<doc, rows, activities, clock>>
  /\ HandlerFrame

\* Lines 70-72.
DeleteChunks(r) ==
  /\ reqs[r].pc = "deleting"
  /\ rows' = <<>>
  /\ reqs' = [reqs EXCEPT ![r].pc = "creating"]
  /\ UNCHANGED <<doc, activities, clock>>
  /\ HandlerFrame

\* Lines 75-82.
CreateChunks(r) ==
  /\ reqs[r].pc = "creating"
  /\ rows' = rows \o reqs[r].parsedData.chunks
  /\ reqs' = [reqs EXCEPT ![r].pc = "updating"]
  /\ UNCHANGED <<doc, activities, clock>>
  /\ HandlerFrame

\* Lines 85-98.
SetParsed(r) ==
  /\ reqs[r].pc = "updating"
  /\ clock' = clock + 1
  /\ doc' = ParsedUpdate(doc, reqs[r].parsedData, clock')
  /\ reqs' = [reqs EXCEPT ![r].pc = "recording"]
  /\ UNCHANGED <<rows, activities>>
  /\ HandlerFrame

\* Lines 101-119.
CreateActivity(r) ==
  /\ reqs[r].pc = "recording"
  /\ activities' = activities + 1
  /\ Respond(r, 200, NoError)
  /\ UNCHANGED <<doc, rows, clock>>
  /\ HandlerFrame

\* Lines 121-136.
SetError(r) ==
  /\ reqs[r].pc = "failing"
  /\ doc' = ErrorUpdate(doc, reqs[r].message)
  /\ Respond(r, 500, reqs[r].message)
  /\ UNCHANGED <<rows, activities, clock>>
  /\ HandlerFrame

HandlerNext ==
  \E r \in Requests :
    \/ FindDocument(r) \/ SetParsing(r) \/ LoadBytes(r) \/ Extract(r)
    \/ DeleteChunks(r) \/ CreateChunks(r) \/ SetParsed(r)
    \/ CreateActivity(r) \/ SetError(r)

HandlerSpec == HandlerInit /\ [][HandlerNext]_vars

\* The steps of request r after its arrival: each is the continuation of
\* an await on a database write, the storage or extractText.
Continue(r) ==
  \/ SetParsing(r) \/ LoadBytes(r) \/ Extract(r)
  \/ DeleteChunks(r) \/ CreateChunks(r) \/ SetParsed(r)
  \/ CreateActivity(r) \/ SetError(r)

\* The handler when every awaited call settles and every database write
\* succeeds: a request that has arrived goes on.
FairHandlerSpec ==
  HandlerSpec /\ \A r \in Requests : WF_vars(Continue(r))

(* ------------------------------------------------- one deal: uploading *)
\* validation.ts lines 5-19.
DocumentTypeSchema ==
  {"BORROWER_INTAKE_SUMMARY", "PERSONAL_FINANCIAL_STATEMENT",
   "BUSINESS_FINANCIAL_STATEMENTS", "BUSINESS_TAX_RETURNS",
   "PERSONAL_TAX_RETURNS", "BUSINESS_DEBT_SCHEDULE", "AR_AP_AGING",
   "BANK_STATEMENTS", "BUSINESS_PLAN_EXEC_SUMMARY",
   "COLLATERAL_UCC_INSURANCE", "ENTITY_LEGAL_DOCS", "PROJECT_COSTS_QUOTES",
   "OTHER"}

\* documents.ts lines 241-249.
requiredTypes ==
  {"BORROWER_INTAKE_SUMMARY", "PERSONAL_FINANCIAL_STATEMENT",
   "BUSINESS_FINANCIAL_STATEMENTS", "BUSINESS_TAX_RETURNS",
   "PERSONAL_TAX_RETURNS", "BUSINESS_DEBT_SCHEDULE", "BANK_STATEMENTS"}

\* validation.ts lines 45-46. A MIME type is a sequence of pieces; the
\* empty string is <<>>.
ALLOWED_MIME_TYPES == {<<"application/pdf">>}

MAX_FILE_SIZE == 20 * 1024 * 1024

\* documents.ts lines 251-254.
NewStatus(types) ==
  IF \A type \in requiredTypes : type \in types THEN "READY" ELSE "DRAFT"

\* What can follow "Content-Type:" in the headers of a part: pieces that
\* are a blank or a MIME type.
MimeTokens == {" ", "application/pdf", "text/plain"}

\* The Content-Type header of a part: <<>> when the part has none, <<v>>
\* when it has one with value v.
HeaderValues == {<<>>} \cup {<<v>> : v \in StringsUpTo(MimeTokens, MaxHeaderTokens)}

AllBlank(v) == \A k \in 1..Len(v) : v[k] = " "

\* String.prototype.trim on pieces.
TrimValue(v) ==
  IF AllBlank(v) THEN <<>>
  ELSE LET solid == {k \in 1..Len(v) : v[k] # " "}
           first == CHOOSE k \in solid : \A j \in solid : k <= j
           last == CHOOSE k \in solid : \A j \in solid : j <= k
       IN SubSeq(v, first, last)

\* documents.ts line 210: headers.match(/Content-Type:\s*([^\r\n]+)/i) at
\* the end of the headers; <<>> is no match, <<c>> a match capturing c.
\* \s* takes the leading blanks but gives one back when nothing else is
\* left for the group, which needs one character.
contentTypeMatch(header) ==
  IF header = <<>> \/ header[1] = <<>> THEN <<>>
  ELSE LET v == header[1]
       IN IF AllBlank(v) THEN << <<v[Len(v)]>> >>
          ELSE LET first == CHOOSE k \in 1..Len(v) :
                              v[k] # " " /\ \A j \in 1..(k - 1) : v[j] = " "
               IN <<SubSeq(v, first, Len(v))>>

\* documents.ts line 219: the contentType of a part that has a filename.
PartContentType(header) ==
  IF contentTypeMatch(header) # <<>>
  THEN TrimValue(contentTypeMatch(header)[1])
  ELSE <<"application/octet-stream">>

\* documents.ts line 105.
MimeTypeOf(fileField) ==
  IF PartContentType(fileField.header) # <<>>
  THEN PartContentType(fileField.header)
  ELSE <<"application/pdf">>

\* validation.ts lines 48-61: the message of the Error thrown, NoError when
\* the file passes.
validateFile(mimetype, size) ==
  IF mimetype = <<>> \/ mimetype \notin ALLOWED_MIME_TYPES
  THEN <<"Only PDF files are allowed">>
  ELSE IF size # 0 /\ size > MAX_FILE_SIZE
  THEN <<"File size exceeds maximum allowed (", "20", "MB)">>
  ELSE NoError

\* The Content-Type headers of upload requests.
RequestContentTypes ==
  {"multipart/form-data; boundary=x", "multipart/form-data",
   "application/json"}

\* documents.ts lines 65 and 77-78.
IsMultipart(contentType) ==
  contentType \in {"multipart/form-data; boundary=x", "multipart/form-data"}

HasBoundary(contentType) == contentType = "multipart/form-data; boundary=x"

\* The file parts of upload requests: with or without a filename, a
\* Content-Type header, and data of some size.
FileParts ==
  [filename : BOOLEAN, header : HeaderValues,
   size : {0, 1, MAX_FILE_SIZE, MAX_FILE_SIZE + 1}]

\* Upload requests: docType and file are <<>> when the part is missing.
UploadRequests ==
  [method : {"OPTIONS", "GET", "POST", "PUT"}, hasId : BOOLEAN,
   contentType : RequestContentTypes,
   docType : {<<>>, <<"BANK_STATEMENTS">>, <<"OTHER">>, <<"NOT_A_TYPE">>},
   file : {<<>>} \cup {<<f>> : f \in FileParts}]

\* Upload requests that pass every check but the one on the type of the
\* document.
PdfUploadRequests ==
  {q \in UploadRequests :
     /\ q.method = "POST" /\ q.hasId /\ HasBoundary(q.contentType)
     /\ q.docType # <<>> /\ q.file # <<>>
     /\ q.file[1] = [filename |-> TRUE, header |-> << <<"application/pdf">> >>,
                     size |-> 1]}

\* documents.ts lines 17-116, the deal existing: the status and message the
\* request is answered with before anything is stored, status 0 when it is
\* not.
UploadCheck(q) ==
  IF q.method = "OPTIONS" THEN [status |-> 200, error |-> NoError]
  ELSE IF ~q.hasId THEN [status |-> 400, error |-> <<"Deal ID is required">>]
  ELSE IF q.method = "GET" THEN [status |-> 200, error |-> NoError]
  ELSE IF q.method # "POST"
  THEN [status |-> 405, error |-> <<"Method not allowed">>]
  ELSE IF ~IsMultipart(q.contentType)
  THEN [status |-> 400,
        error |-> <<"Content-Type must be multipart/form-data">>]
  ELSE IF ~HasBoundary(q.contentType)
  THEN [status |-> 400, error |-> <<"Invalid multipart boundary">>]
  ELSE IF q.docType = <<>> \/ q.file = <<>>
  THEN [status |-> 400, error |-> <<"docType and file are required">>]
  ELSE IF q.docType[1] \notin DocumentTypeSchema
  THEN [status |-> 400, error |-> <<"Invalid document type">>]
  ELSE IF ~q.file[1].filename
  THEN [status |-> 400, error |-> <<"File is required">>]
  ELSE IF validateFile(MimeTypeOf(q.file[1]), q.file[1].size) # NoError
  THEN [status |-> 400,
        error |-> validateFile(MimeTypeOf(q.file[1]), q.file[1].size)]
  ELSE IF q.file[1].size > MAX_FILE_SIZE
  THEN [status |-> 400,
        error |-> <<"File too large. Maximum size is ", "20", "MB">>]
  ELSE [status |-> 0, error |-> NoError]

\* The document types of the deal's rows before the requests arrive: none,
\* every required type but one, every required type.
SeedTypeSets == {{}, requiredTypes \ {"BANK_STATEMENTS"}, requiredTypes}

\* documents.ts lines 124-135: the row of an uploaded document.
DocumentRow(id, docType, mimeType) ==
  [id |-> id, docType |-> docType, mimeType |-> mimeType]

SeedDocuments(types) ==
  {DocumentRow(t, t, <<"application/pdf">>) : t \in types}

UploadId(u) == IF u = 1 THEN "upload-1" ELSE "upload-2"

\* An upload request that has not arrived; request is <<q>> once request q
\* has; seen holds the types findMany returned.
UploadAtEntry ==
  [pc |-> "idle", request |-> <<>>, docType |-> "", mimeType |-> <<>>,
   seen |-> {}, status |-> 0, error |-> NoError]

\* The rows of a deal whose documents of the given types were uploaded one
\* after the other.
DealRows(types) ==
  /\ documents = SeedDocuments(types)
  /\ files = types
  /\ dealStatus = NewStatus(types)
  /\ dealActivities = Cardinality(types)
  /\ runs = <<>>

DealFrame == UNCHANGED <<chunkerVars, pipelineVars, truncateVars,
                         concurrentVars, handlerVars, configured>>

\* documents.ts lines 17-116: the request is checked, and answered when a
\* check fails; nothing is stored before storage.save.
ReceiveUpload(u, requests) ==
  /\ uploads[u].pc = "idle"
  /\ \E q \in requests :
       uploads' =
         [uploads EXCEPT ![u] =
            IF UploadCheck(q).status # 0
            THEN [@ EXCEPT !.pc = "done", !.request = <<q>>,
                           !.status = UploadCheck(q).status,
                           !.error = UploadCheck(q).error]
            ELSE [@ EXCEPT !.pc = "saving", !.request = <<q>>,
                           !.docType = q.docType[1],
                           !.mimeType = MimeTypeOf(q.file[1])]]
  /\ UNCHANGED <<dealStatus, documents, files, dealActivities, runs,
                 deletes, analyzes>>
  /\ DealFrame

\* documents.ts lines 119-121.
SaveFile(u) ==
  /\ uploads[u].pc = "saving"
  /\ files' = files \cup {UploadId(u)}
  /\ uploads' = [uploads EXCEPT ![u].pc = "creating"]
  /\ UNCHANGED <<dealStatus, documents, dealActivities, runs,
                 deletes, analyzes>>
  /\ DealFrame

\* documents.ts lines 124-135.
CreateDocument(u) ==
  /\ uploads[u].pc = "creating"
  /\ documents' = documents \cup
       {DocumentRow(UploadId(u), uploads[u].docType, uploads[u].mimeType)}
  /\ uploads' = [uploads EXCEPT ![u].pc = "logging"]
  /\ UNCHANGED <<dealStatus, files, dealActivities, runs, deletes, analyzes>>
  /\ DealFrame

\* documents.ts lines 138-150.
LogUpload(u) ==
  /\ uploads[u].pc = "logging"
  /\ dealActivities' = dealActivities + 1
  /\ uploads' = [uploads EXCEPT ![u].pc = "counting"]
  /\ UNCHANGED <<dealStatus, documents, files, runs, deletes, analyzes>>
  /\ DealFrame

\* documents.ts lines 236-239: updateDealStatus reads the types.
ReadTypes(u) ==
  /\ uploads[u].pc = "counting"
  /\ uploads' = [uploads EXCEPT ![u].pc = "setting",
                                ![u].seen = {d.docType : d \in documents}]
  /\ UNCHANGED <<dealStatus, documents, files, dealActivities, runs,
                 deletes, analyzes>>
  /\ DealFrame

\* documents.ts lines 251-259 and 155.
SetStatus(u) ==
  /\ uploads[u].pc = "setting"
  /\ dealStatus' = NewStatus(uploads[u].seen)
  /\ uploads' = [uploads EXCEPT ![u].pc = "done", ![u].status = 201]
  /\ UNCHANGED <<documents, files, dealActivities, runs, deletes, analyzes>>
  /\ DealFrame

\* One upload request, of any form, on a deal.
UploadInit ==
  /\ \E types \in SeedTypeSets : DealRows(types)
  /\ configured = FALSE
  /\ uploads = [u \in {1} |-> UploadAtEntry]
  /\ deletes = <<>> /\ analyzes = <<>>
  /\ ChunkerOff
  /\ PipelineOff
  /\ TruncateOff
  /\ ConcurrentOff
  /\ HandlerOff

UploadNext ==
  \E u \in DOMAIN uploads :
    \/ ReceiveUpload(u, UploadRequests) \/ SaveFile(u) \/ CreateDocument(u)
    \/ LogUpload(u) \/ ReadTypes(u) \/ SetStatus(u)

UploadSpec == UploadInit /\ [][UploadNext]_vars

(* --------------------------------------- one deal: deleting a document *)
\* Requests on /api/documents/:id; target is the id asked for.
DeleteRequests ==
  [method : {"OPTIONS", "GET", "DELETE", "PUT"}, hasId : BOOLEAN,
   target : {"BANK_STATEMENTS", "upload-1", "no-such-document"}]

DeleteAtEntry ==
  [pc |-> "idle", target |-> "", status |-> 0, error |-> NoError]

\* index.ts lines 95-110, 120-134: the status and message of a request
\* answered before anything is deleted, status 0 when it is not.
DeleteCheck(q, rowsNow) ==
  IF q.method = "OPTIONS" THEN [status |-> 200, error |-> NoError]
  ELSE IF ~q.hasId
  THEN [status |-> 400, error |-> <<"Document ID is required">>]
  ELSE IF q.method \notin {"GET", "DELETE"}
  THEN [status |-> 405, error |-> <<"Method not allowed">>]
  ELSE IF \A row \in rowsNow : row.id # q.target
  THEN [status |-> 404, error |-> <<"Document not found">>]
  ELSE IF q.method = "GET" THEN [status |-> 200, error |-> NoError]
  ELSE [status |-> 0, error |-> NoError]

\* index.ts lines 95-143: the checks and findUnique.
ReceiveDelete(d) ==
  /\ deletes[d].pc = "idle"
  /\ \E q \in DeleteRequests :
       deletes' =
         [deletes EXCEPT ![d] =
            IF DeleteCheck(q, documents).status # 0
            THEN [@ EXCEPT !.pc = "done",
                           !.status = DeleteCheck(q, documents).status,
                           !.error = DeleteCheck(q, documents).error]
            ELSE [@ EXCEPT !.pc = "unlinking", !.target = q.target]]
  /\ UNCHANGED <<dealStatus, documents, files, dealActivities, runs,
                 uploads, analyzes>>
  /\ DealFrame

\* index.ts lines 146-147; storage.delete swallows its errors.
DeleteFile(d) ==
  /\ deletes[d].pc = "unlinking"
  /\ files' = files \ {deletes[d].target}
  /\ deletes' = [deletes EXCEPT ![d].pc = "deleting"]
  /\ UNCHANGED <<dealStatus, documents, dealActivities, runs,
                 uploads, analyzes>>
  /\ DealFrame

\* index.ts lines 150-152: prisma.document.delete, which throws into the
\* catch of line 112 when the row is gone.
DeleteRow(d) ==
  /\ deletes[d].pc = "deleting"
  /\ IF \E row \in documents : row.id = deletes[d].target
     THEN /\ documents' = {row \in documents : row.id # deletes[d].target}
          /\ deletes' = [deletes EXCEPT ![d].pc = "logging"]
     ELSE /\ documents' = documents
          /\ deletes' = [deletes EXCEPT
                           ![d].pc = "done", ![d].status = 500,
                           ![d].error = <<"Record to delete does not exist.">>]
  /\ UNCHANGED <<dealStatus, files, dealActivities, runs, uploads, analyzes>>
  /\ DealFrame

\* index.ts lines 155-167.
LogDelete(d) ==
  /\ deletes[d].pc = "logging"
  /\ dealActivities' = dealActivities + 1
  /\ deletes' = [deletes EXCEPT ![d].pc = "done", ![d].status = 204]
  /\ UNCHANGED <<dealStatus, documents, files, runs, uploads, analyzes>>
  /\ DealFrame

(* ------------------------------------------------- one deal: analyzing *)
\* Requests on /api/deals/:id/analyze.
AnalyzeRequests == [method : {"OPTIONS", "GET", "POST"}, hasId : BOOLEAN]

\* run is the position in runs of the row the request created, 0 before;
\* outcome is how runAnalysis settled.
AnalyzeAtEntry ==
  [pc |-> "idle", run |-> 0, outcome |-> <<>>, status |-> 0,
   error |-> NoError]

\* analyze.ts lines 56-62.
NewRun ==
  [status |-> "RUNNING", outputJson |-> <<>>, errorMessage |-> NoError]

\* analyze.ts lines 44-49.
existingRun(runRows) ==
  \E k \in 1..Len(runRows) : runRows[k].status \in {"QUEUED", "RUNNING"}

\* openai-service.ts lines 91-136: without a key runAnalysis returns the
\* mock output; with one it returns what the model answered or throws.
AnalysisOutcomes(hasKey) ==
  IF hasKey
  THEN {<<"returned", "Proceed">>, <<"thrown", "rate limit exceeded">>}
  ELSE {<<"returned", "Hold - need more info">>}

\* openai-service.ts line 134.
AnalysisFailed(cause) == <<"OpenAI analysis failed: ", cause>>

\* The run is left as it is.
SuccessUpdateNone(run, output) == run

\* analyze.ts lines 130-138.
SuccessUpdate(run, output) ==
  [run EXCEPT !.status = "SUCCESS", !.outputJson = <<output>>]

\* analyze.ts lines 174-181.
FailureUpdate(run, errorMessage) ==
  [run EXCEPT !.status = "FAILED", !.errorMessage = errorMessage]

AnswerAnalyze(a, code, msg) ==
  analyzes' = [analyzes EXCEPT ![a].pc = "done", ![a].status = code,
                               ![a].error = msg]

\* analyze.ts lines 11-53, the deal existing: the checks of the request and
\* the search for a run in progress.
ReceiveAnalyze(a) ==
  /\ analyzes[a].pc = "idle"
  /\ \E q \in AnalyzeRequests :
       IF q.method = "OPTIONS" THEN AnswerAnalyze(a, 200, NoError)
       ELSE IF q.method # "POST"
       THEN AnswerAnalyze(a, 405, <<"Method not allowed">>)
       ELSE IF ~q.hasId
       THEN AnswerAnalyze(a, 400, <<"Deal ID is required">>)
       ELSE IF existingRun(runs)
       THEN AnswerAnalyze(a, 409, <<"Analysis already in progress">>)
       ELSE analyzes' = [analyzes EXCEPT ![a].pc = "creating"]
  /\ UNCHANGED <<dealStatus, documents, files, dealActivities, runs,
                 uploads, deletes>>
  /\ DealFrame

\* analyze.ts lines 56-62.
CreateRun(a) ==
  /\ analyzes[a].pc = "creating"
  /\ runs' = Append(runs, NewRun)
  /\ analyzes' = [analyzes EXCEPT ![a].pc = "marking",
                                  ![a].run = Len(runs) + 1]
  /\ UNCHANGED <<dealStatus, documents, files, dealActivities,
                 uploads, deletes>>
  /\ DealFrame

\* analyze.ts lines 65-68.
MarkAnalyzing(a) ==
  /\ analyzes[a].pc = "marking"
  /\ dealStatus' = "ANALYZING"
  /\ analyzes' = [analyzes EXCEPT ![a].pc = "starting"]
  /\ UNCHANGED <<documents, files, dealActivities, runs, uploads, deletes>>
  /\ DealFrame

\* analyze.ts lines 71-127: the activity, then the call of runAnalysis.
LogStarted(a) ==
  /\ analyzes[a].pc = "starting"
  /\ dealActivities' = dealActivities + 1
  /\ analyzes' = [analyzes EXCEPT ![a].pc = "running"]
  /\ UNCHANGED <<dealStatus, documents, files, runs, uploads, deletes>>
  /\ DealFrame

\* analyze.ts line 127 and 168-171: runAnalysis returns or throws.
RunAnalysis(a) ==
  /\ analyzes[a].pc = "running"
  /\ \E outcome \in AnalysisOutcomes(configured) :
       analyzes' =
         [analyzes EXCEPT
            ![a].outcome = outcome,
            ![a].pc = IF outcome[1] = "returned" THEN "storing"
                      ELSE "failing",
            ![a].error = IF outcome[1] = "returned" THEN NoError
                         ELSE AnalysisFailed(outcome[2])]
  /\ UNCHANGED <<dealStatus, documents, files, dealActivities, runs,
                 uploads, deletes>>
  /\ DealFrame

\* analyze.ts lines 130-138.
StoreOutput(a) ==
  /\ analyzes[a].pc = "storing"
  /\ runs' = [runs EXCEPT ![analyzes[a].run] =
                SuccessUpdate(@, analyzes[a].outcome[2])]
  /\ analyzes' = [analyzes EXCEPT ![a].pc = "finishing"]
  /\ UNCHANGED <<dealStatus, documents, files, dealActivities,
                 uploads, deletes>>
  /\ DealFrame

\* analyze.ts lines 141-144.
MarkAnalyzed(a) ==
  /\ analyzes[a].pc = "finishing"
  /\ dealStatus' = "ANALYZED"
  /\ analyzes' = [analyzes EXCEPT ![a].pc = "completing"]
  /\ UNCHANGED <<documents, files, dealActivities, runs, uploads, deletes>>
  /\ DealFrame

\* analyze.ts lines 147-166.
LogCompleted(a) ==
  /\ analyzes[a].pc = "completing"
  /\ dealActivities' = dealActivities + 1
  /\ AnswerAnalyze(a, 200, NoError)
  /\ UNCHANGED <<dealStatus, documents, files, runs, uploads, deletes>>
  /\ DealFrame

\* analyze.ts lines 174-181.
StoreFailure(a) ==
  /\ analyzes[a].pc = "failing"
  /\ runs' = [runs EXCEPT ![analyzes[a].run] =
                FailureUpdate(@, analyzes[a].error)]
  /\ analyzes' = [analyzes EXCEPT ![a].pc = "reverting"]
  /\ UNCHANGED <<dealStatus, documents, files, dealActivities,
                 uploads, deletes>>
  /\ DealFrame

\* analyze.ts lines 184-187.
RevertStatus(a) ==
  /\ analyzes[a].pc = "reverting"
  /\ dealStatus' = "READY"
  /\ analyzes' = [analyzes EXCEPT ![a].pc = "reporting"]
  /\ UNCHANGED <<documents, files, dealActivities, runs, uploads, deletes>>
  /\ DealFrame

\* analyze.ts lines 190-199.
LogFailed(a) ==
  /\ analyzes[a].pc = "reporting"
  /\ dealActivities' = dealActivities + 1
  /\ AnswerAnalyze(a, 500, analyzes[a].error)
  /\ UNCHANGED <<dealStatus, documents, files, runs, uploads, deletes>>
  /\ DealFrame

(* --------------------------------------------- one deal: all its requests *)
\* An upload, a delete and two analyze requests on a deal.
DealInit ==
  /\ \E types \in SeedTypeSets : DealRows(types)
  /\ configured \in BOOLEAN
  /\ uploads = [u \in {1} |-> UploadAtEntry]
  /\ deletes = [d \in {1} |-> DeleteAtEntry]
  /\ analyzes = [a \in {1, 2} |-> AnalyzeAtEntry]
  /\ ChunkerOff
  /\ PipelineOff
  /\ TruncateOff
  /\ ConcurrentOff
  /\ HandlerOff

UploadStep(u) ==
  \/ ReceiveUpload(u, PdfUploadRequests) \/ SaveFile(u) \/ CreateDocument(u)
  \/ LogUpload(u) \/ ReadTypes(u) \/ SetStatus(u)

DeleteStep(d) ==
  ReceiveDelete(d) \/ DeleteFile(d) \/ DeleteRow(d) \/ LogDelete(d)

AnalyzeStep(a) ==
  \/ ReceiveAnalyze(a) \/ CreateRun(a) \/ MarkAnalyzing(a) \/ LogStarted(a)
  \/ RunAnalysis(a) \/ StoreOutput(a) \/ MarkAnalyzed(a) \/ LogCompleted(a)
  \/ StoreFailure(a) \/ RevertStatus(a) \/ LogFailed(a)

DealNext ==
  \/ \E u \in DOMAIN uploads : UploadStep(u)
  \/ \E d \in DOMAIN deletes : DeleteStep(d)
  \/ \E a \in DOMAIN analyzes : AnalyzeStep(a)

DealSpec == DealInit /\ [][DealNext]_vars

\* Each awaited call of an analyze request that has passed its checks
\* settles: the database calls, and runAnalysis (openai-service.ts lines
\* 91-136), which returns or throws.
AnalyzeContinue(a) ==
  \/ CreateRun(a) \/ MarkAnalyzing(a) \/ LogStarted(a) \/ RunAnalysis(a)
  \/ StoreOutput(a) \/ MarkAnalyzed(a) \/ LogCompleted(a)
  \/ StoreFailure(a) \/ RevertStatus(a) \/ LogFailed(a)

\* An upload and two analyze requests on a deal.
AnalyzeInit ==
  /\ \E types \in SeedTypeSets : DealRows(types)
  /\ configured \in BOOLEAN
  /\ uploads = [u \in {1} |-> UploadAtEntry]
  /\ deletes = <<>>
  /\ analyzes = [a \in {1, 2} |-> AnalyzeAtEntry]
  /\ ChunkerOff
  /\ PipelineOff
  /\ TruncateOff
  /\ ConcurrentOff
  /\ HandlerOff

AnalyzeNext ==
  \/ \E u \in DOMAIN uploads : UploadStep(u)
  \/ \E a \in DOMAIN analyzes : AnalyzeStep(a)

AnalyzeSpec == AnalyzeInit /\ [][AnalyzeNext]_vars

FairAnalyzeSpec ==
  AnalyzeSpec /\ \A a \in {1, 2} : WF_vars(AnalyzeContinue(a))

(* ------------------------------------------------------------------ C17 *)
\* C17: truncateText returns the text unchanged when it is at most
\* maxLength long, and otherwise its first maxLength characters followed by
\* '...'; an omitted maxLength is 1000.
C17_Truncate ==
  tpc = "done" =>
    LET m == IF tmax = <<>> THEN 1000 ELSE tmax[1]
    IN /\ Len(ttext) <= m => tout = ttext
       /\ Len(ttext) > m =>
            /\ Len(tout) = m + 3
            /\ \A i \in 1..m : tout[i] = ttext[i]
            /\ \A i \in (m + 1)..(m + 3) : tout[i] = 46

\* A text of 1001 characters was truncated under the default maxLength.
C17_Witness ==
  /\ tpc = "done" /\ tmax = <<>>
  /\ Len(ttext) = 1001 /\ Len(tout) = 1003

(* ------------------------------------------------------------------ C18 *)
\* What a call alone on buffer b returns or throws when its extractText
\* settles as s.
Alone(b, s) ==
  IF Validate(b) # NoError
  THEN [pc |-> "thrown", result |-> NoResult, error |-> Validate(b)]
  ELSE IF s[1] = "resolved"
  THEN [pc |-> "returned", result |-> Parsed(s[2]), error |-> NoError]
  ELSE [pc |-> "thrown", result |-> NoResult,
        error |-> ExtractionFailed(s[2])]

Finished(i) == frames[i].pc \in {"returned", "thrown"}

HasMagic(b) ==
  Len(b) >= 4 /\ \A k \in 1..4 : b[k] = <<37, 80, 68, 70>>[k]

\* The pipeline failed in request q: the bytes could not be fetched or
\* read, they were empty or not a PDF, or extractText rejected.
PipelineFailed(q) ==
  \/ q.fetched # <<>> /\ q.fetched[1] # "ok"
  \/ q.fetched # <<>> /\ q.fetched[1] = "ok" /\ Len(q.fetched[2]) = 0
  \/ q.fetched # <<>> /\ q.fetched[1] = "ok" /\ ~HasMagic(q.fetched[2])
  \/ q.settled # <<>> /\ q.settled[1] = "rejected"

\* The message of that failure.
FailureMessage(q) ==
  IF q.fetched[1] = "notok"
  THEN <<"Failed to fetch PDF from storage: ", q.fetched[2]>>
  ELSE IF q.fetched[1] = "rejected" THEN <<q.fetched[2]>>
  ELSE IF Len(q.fetched[2]) = 0 THEN <<"Empty or invalid PDF file">>
  ELSE IF ~HasMagic(q.fetched[2]) THEN <<"File is not a valid PDF">>
  ELSE <<"PDF parsing failed: ",
         IF q.settled[2].isError THEN q.settled[2].message
         ELSE "Unknown error">>

\* A request in which the pipeline failed ended with 500 after the document
\* became ERROR with the message of an extraction failure.
C19_Witness ==
  \E r \in Requests :
    /\ reqs[r].pc = "done" /\ reqs[r].status = 500
    /\ reqs[r].settled # <<>> /\ reqs[r].settled[1] = "rejected"
    /\ doc.parseStatus = "ERROR"
    /\ doc.parseError = <<"PDF parsing failed: ", "Invalid PDF structure">>

C19_FailedStep(r) ==
  PipelineFailed(reqs[r]) /\ reqs'[r] # reqs[r] =>
    /\ reqs'[r].pc = "done"
    /\ reqs'[r].status = 500
    /\ reqs'[r].error = FailureMessage(reqs[r])
    /\ doc'.parseStatus = "ERROR"
    /\ doc'.parseError = FailureMessage(reqs[r])

\* C19: a request in which the pipeline failed (empty input, invalid
\* format, extraction failure, failed fetch or read) does nothing but the
\* step that sets the document's parseStatus to ERROR and parseError to
\* the failure message and answers 500 with that message; it never goes on
\* to store chunks.
C19_MarksErrored ==
  [][\A r \in Requests :
       /\ C19_FailedStep(r)
       /\ PipelineFailed(reqs'[r]) => reqs'[r].pc \in {"failing", "done"}
    ]_vars

(* ------------------------------------------------------------------ C20 *)
\* The position of a request in the handler's text.
Rank(at) ==
  CASE at = "idle" -> 0
    [] at = "marking" -> 1
    [] at = "loading" -> 2
    [] at = "extracting" -> 3
    [] at \in {"failing", "deleting"} -> 4
    [] at = "creating" -> 5
    [] at = "updating" -> 6
    [] at = "recording" -> 7
    [] at = "done" -> 8

\* The document was ERROR after a failed request, a later request was
\* accepted and parsed it.
C20_Witness ==
  /\ reqs[1].status = 500
  /\ reqs[2].read = "ERROR" /\ reqs[2].status = 200
  /\ doc.parseStatus = "PARSED"

\* A request never goes back: it loads the bytes and awaits extractText at
\* most once, and a finished request does nothing more.
C20_NoRerun(r) ==
  reqs'[r] # reqs[r] =>
    /\ Rank(reqs'[r].pc) > Rank(reqs[r].pc)
    /\ reqs[r].fetched # <<>> => reqs'[r].fetched = reqs[r].fetched
    /\ reqs[r].settled # <<>> => reqs'[r].settled = reqs[r].settled

\* The answer to an arriving request: refused with 409, changing nothing,
\* exactly when the document is PARSING.
C20_Arrival(r) ==
  reqs[r].pc = "idle" /\ reqs'[r].pc # "idle" =>
    /\ reqs'[r].status = 409 =>
         doc.parseStatus = "PARSING" /\ doc' = doc /\ rows' = rows
    /\ doc.parseStatus \in {"PENDING", "ERROR", "PARSED"} =>
         /\ reqs'[r].status \in {0, 200, 400, 405}
         /\ reqs'[r].status = 0 =>
              reqs'[r].pc = "marking" /\ reqs'[r].read = doc.parseStatus

\* An accepted request sets PARSING, and ends by setting PARSED or ERROR.
C20_Progress(r) ==
  /\ reqs[r].pc = "marking" /\ reqs'[r].pc # "marking" =>
       doc'.parseStatus = "PARSING"
  /\ reqs[r].pc = "updating" /\ reqs'[r].pc # "updating" =>
       doc'.parseStatus = "PARSED"
  /\ reqs[r].pc = "failing" /\ reqs'[r].pc # "failing" =>
       doc'.parseStatus = "ERROR" /\ reqs'[r].pc = "done"
  /\ reqs'[r].pc = "done" /\ reqs'[r].read # "" =>
       reqs'[r].status \in {200, 500}

\* C20: the handler never re-runs a failed pipeline invocation; a request
\* arriving at a document that is PENDING, ERROR or PARSED is accepted,
\* sets it PARSING and ends by setting PARSED or ERROR; only a request
\* arriving at a PARSING document is refused, with 409.
C20_ManualRetry ==
  [][\A r \in Requests :
       C20_NoRerun(r) /\ C20_Arrival(r) /\ C20_Progress(r)]_vars

(* ------------------------------------------------------------------ C21 *)
\* The MIME type the file part of request q declares: the value of its
\* Content-Type header without the blanks around it, <<>> when it is blank
\* or the part has no such header.
DeclaredMimeType(q) ==
  IF q.file[1].header = <<>> THEN <<>>
  ELSE LET v == q.file[1].header[1]
       IN SelectSeq(v, LAMBDA piece : piece # " ")

NothingStored ==
  UNCHANGED <<documents, files, dealActivities, dealStatus>>

\* C21: an upload whose file part declares a MIME type other than
\* application/pdf is answered 400, and an upload answered 400 stores no
\* file, creates no document and no activity and leaves the status of the
\* deal unchanged.
C21_OnlyPdf ==
  [][\A u \in DOMAIN uploads :
       /\ uploads[u].pc = "idle" /\ uploads'[u].pc # "idle" =>
            LET q == uploads'[u].request[1]
            IN /\ (/\ q.method = "POST" /\ q.hasId /\ q.file # <<>>
                   /\ DeclaredMimeType(q) # <<"application/pdf">>)
                    => uploads'[u].status = 400
               /\ uploads'[u].status = 400 =>
                    uploads'[u].pc = "done" /\ NothingStored
       /\ uploads[u].status = 400 => NothingStored
    ]_vars

(* ------------------------------------------------------------------ C22 *)
\* No upload, delete or analyze request is in progress.
Quiet ==
  /\ \A u \in DOMAIN uploads : uploads[u].pc \in {"idle", "done"}
  /\ \A d \in DOMAIN deletes : deletes[d].pc \in {"idle", "done"}
  /\ \A a \in DOMAIN analyzes : analyzes[a].pc \in {"idle", "done"}

HasAllRequired ==
  \A type \in requiredTypes : \E row \in documents : row.docType = type

\* C22: between requests, a deal that is READY has a document of every
\* required type and a deal that is DRAFT lacks one.
C22_Readiness ==
  Quiet =>
    /\ dealStatus = "READY" => HasAllRequired
    /\ dealStatus = "DRAFT" => ~HasAllRequired

(* ------------------------------------------------------------------ C23 *)
\* The chunk the guard against zero chunks builds.
FallbackChunk ==
  [chunkIndex |-> 0,
   text |-> SubSeq(cleanText, 1, Min(chunkSize, Len(cleanText))),
   pageHint |-> 1]

\* C23: the walk runs only on a cleaned text that is not empty and ends
\* with a paragraph in its buffer, so the chunks returned are the chunks
\* pushed in the loop and the last chunk, never the chunk of the guard
\* against zero chunks; every paragraph of every chunk is a whole trimmed
\* paragraph of the cleaned text.
C23_FallbackUnreachable ==
  /\ pc = "loop" => cleanText # <<>>
  /\ pc = "loop" /\ next > Len(paragraphs) => walk.currentChunk # <<>>
  /\ pc = "done" /\ cleanText # <<>> =>
       /\ walk.currentChunk # <<>>
       /\ chunks = Append(walk.chunks,
                          [chunkIndex |-> walk.chunkIndex,
                           text |-> Trim(walk.currentChunk),
                           pageHint |-> numPages])
       /\ \A i \in 1..Len(chunks) :
            LET ps == ParagraphsOf(chunks[i].text)
            IN \A j \in 1..Len(ps) : IsInputParagraph(ps[j])

\* A text longer than chunkSize, with a blank paragraph, was returned as
\* one chunk pushed after the loop, which differs from the chunk the guard
\* would have built.
C23_Witness ==
  /\ pc = "done" /\ cleanText # <<>>
  /\ Len(walk.chunks) = 0 /\ Len(chunks) = 1
  /\ Len(cleanText) > chunkSize
  /\ \E j \in 1..Len(paragraphs) : Trim(paragraphs[j]) = <<>>
  /\ chunks[1] # FallbackChunk

(* ------------------------------------------------------------------ C30 *)
\* C30: when a chunk is closed chunkIndex equals the number of chunks
\* pushed, and for every text that is not empty after the clean-up every
\* chunk, closed in the loop or pushed after it, has pageHint = numPages.
C30_PageHintIsPageCount ==
  /\ pc \in {"loop", "done"} => walk.chunkIndex = Len(walk.chunks)
  /\ \A i \in 1..Len(walk.chunks) : walk.chunks[i].pageHint = numPages
  /\ pc = "done" /\ cleanText # <<>> =>
       \A i \in 1..Len(chunks) : chunks[i].pageHint = numPages

\* Three chunks of a two-page document, the first two closed in the loop,
\* all with pageHint 2.
C30_Witness ==
  /\ pc = "done" /\ numPages = 2
  /\ Len(chunks) = 3 /\ Len(walk.chunks) = 2
  /\ chunks[1].pageHint = 2 /\ chunks[2].pageHint = 2 /\ chunks[3].pageHint = 2

(* ------------------------------------------------------------------ C24 *)
\* The requests past the test of line 35 and not yet answered.
Parsing == {r \in Requests : reqs[r].pc \notin {"idle", "done"}}

\* C24: at most one request at a time is past the 'already parsing' test.
C24_MutualExclusion == Cardinality(Parsing) <= 1

(* ------------------------------------------------------------------ C26 *)
\* The chunkIndex values of the rows are pairwise distinct and form
\* 0..N-1.
IndexesContiguous ==
  /\ \A i, j \in 1..Len(rows) :
       i # j => rows[i].chunkIndex # rows[j].chunkIndex
  /\ {rows[i].chunkIndex : i \in 1..Len(rows)} = 0..(Len(rows) - 1)

\* C26: when the document is PARSED and no parse request is in progress,
\* its rows are the chunks one call of the pipeline returned, with
\* chunkIndex values 0..N-1 and no row of another parse.
C26_ChunksOfOneParse ==
  doc.parseStatus = "PARSED" /\ Parsing = {} =>
    /\ IndexesContiguous
    /\ \E r \in Requests :
         reqs[r].status = 200 /\ rows = reqs[r].parsedData.chunks

(* ------------------------------------------------------------------ C27 *)
\* A request set the document PARSING and ended by setting it PARSED with
\* the text of its parse, after an earlier request had set it ERROR.
C27_Witness ==
  \E r \in Requests :
    /\ reqs[r].read = "ERROR" /\ reqs[r].status = 200
    /\ Parsing = {}
    /\ doc.parseStatus = "PARSED" /\ doc.parseError = NoError
    /\ doc.parsedText = <<reqs[r].parsedData.text>>

C27_Settled ==
  Parsing = {} =>
    /\ doc.parseStatus # "PARSING"
    /\ doc.parseStatus = "PARSED" =>
         /\ doc.parseError = NoError
         /\ \E r \in Requests :
              /\ reqs[r].status = 200 /\ reqs[r].settled # <<>>
              /\ reqs[r].settled[1] = "resolved"
              /\ doc.parsedText = <<FullText(reqs[r].settled[2])>>

\* C27: when awaited calls settle and database writes succeed, every
\* request that has set the document PARSING goes on to set it PARSED or
\* ERROR and to answer; once no request is in progress the document is
\* not PARSING, and if it is PARSED its parsedText is the full text of a
\* parse and its parseError is null.
C27_ParsingEnds ==
  /\ \A r \in Requests :
       (reqs[r].pc = "loading") ~>
         (reqs[r].pc = "done" /\ reqs[r].status \in {200, 500})
  /\ [][\A r \in Requests :
          /\ reqs[r].pc = "updating" /\ reqs'[r].pc # "updating" =>
               /\ doc'.parseStatus = "PARSED"
               /\ doc'.parsedText = <<FullText(reqs[r].settled[2])>>
               /\ doc'.parseError = NoError
          /\ reqs[r].pc = "failing" /\ reqs'[r].pc # "failing" =>
               doc'.parseStatus = "ERROR"
          /\ reqs'[r].pc = "done" /\ reqs'[r].status = 200 =>
               reqs[r].pc \in {"idle", "recording", "done"}
       ]_vars
  /\ []C27_Settled

(* ------------------------------------------------------------------ C29 *)
\* A failed parse of a document parsed before left its text, its time and
\* its rows in place.
C29_Witness ==
  \E r \in Requests :
    /\ reqs[r].read = "PARSED" /\ reqs[r].status = 500
    /\ Parsing = {}
    /\ doc.parseStatus = "ERROR" /\ doc.parseError # NoError
    /\ doc.parsedText # <<>> /\ doc.parsedAt # <<>> /\ Len(rows) = 1

\* C29: no step of a request before the pipeline has returned, and no step
\* of a request in which it failed, changes the rows of the chunks,
\* parsedText or parsedAt; the step after a failure changes parseStatus to
\* ERROR and parseError only.
C29_FailureFrame ==
  [][\A r \in Requests :
       /\ reqs'[r] # reqs[r] /\ reqs[r].pc \in
            {"idle", "marking", "loading", "extracting", "failing"} =>
            /\ rows' = rows
            /\ doc'.parsedText = doc.parsedText
            /\ doc'.parsedAt = doc.parsedAt
       /\ reqs'[r] # reqs[r] /\ reqs[r].pc = "failing" =>
            doc' = [doc EXCEPT !.parseStatus = "ERROR",
                               !.parseError = reqs[r].message]
       /\ PipelineFailed(reqs'[r]) => reqs'[r].pc \in {"failing", "done"}
    ]_vars

(* ------------------------------------------------------------------ C25 *)
\* The runs of the deal that are QUEUED or RUNNING.
RunsInProgress ==
  {k \in 1..Len(runs) : runs[k].status \in {"QUEUED", "RUNNING"}}

\* C25: the deal has at most one run that is QUEUED or RUNNING, and a
\* request answered 409 has created no run.
C25_OneRunInProgress ==
  /\ Cardinality(RunsInProgress) <= 1
  /\ \A a \in DOMAIN analyzes :
       analyzes[a].status = 409 => analyzes[a].run = 0

(* ------------------------------------------------------------------ C28 *)
\* The analyze requests that have passed their checks and not answered.
Analyzing ==
  {a \in DOMAIN analyzes : analyzes[a].pc \notin {"idle", "done"}}

\* One request ended with its run SUCCESS and the other with its run
\* FAILED, and no request is in progress.
C28_Witness ==
  /\ Analyzing = {}
  /\ \E a, b \in DOMAIN analyzes :
       /\ analyzes[a].status = 200 /\ analyzes[a].run # 0
       /\ runs[analyzes[a].run].status = "SUCCESS"
       /\ runs[analyzes[a].run].outputJson = <<analyzes[a].outcome[2]>>
       /\ analyzes[b].status = 500 /\ analyzes[b].run # 0
       /\ runs[analyzes[b].run].status = "FAILED"
       /\ runs[analyzes[b].run].errorMessage = analyzes[b].error

C28_Settled ==
  /\ \A a \in DOMAIN analyzes :
       analyzes[a].pc = "done" /\ analyzes[a].run # 0 =>
         runs[analyzes[a].run].status \in {"SUCCESS", "FAILED"}
  /\ Analyzing = {} =>
       /\ RunsInProgress = {}
       /\ dealStatus # "ANALYZING"

\* C28: when awaited calls settle and database writes succeed, every run
\* a request created ends SUCCESS or FAILED; when runAnalysis returns the
\* run becomes SUCCESS with the output and the deal ANALYZED, when it
\* throws the run becomes FAILED with the message and the deal READY; a
\* request that has answered leaves its run neither QUEUED nor RUNNING,
\* and with no request in progress the deal is not ANALYZING.
C28_RunEnds ==
  /\ \A a \in {1, 2} :
       (analyzes[a].run # 0) ~>
         /\ analyzes[a].pc = "done" /\ analyzes[a].run # 0
         /\ runs[analyzes[a].run].status \in {"SUCCESS", "FAILED"}
  /\ [][\A a \in DOMAIN analyzes :
          /\ analyzes[a].pc = "running" /\ analyzes'[a].pc # "running" =>
               analyzes'[a].pc =
                 IF analyzes'[a].outcome[1] = "returned" THEN "storing"
                 ELSE "failing"
          /\ analyzes[a].pc = "storing" /\ analyzes'[a].pc # "storing" =>
               /\ runs'[analyzes[a].run].status = "SUCCESS"
               /\ runs'[analyzes[a].run].outputJson =
                    <<analyzes[a].outcome[2]>>
               /\ analyzes'[a].pc = "finishing"
          /\ analyzes[a].pc = "finishing" /\ analyzes'[a].pc # "finishing" =>
               dealStatus' = "ANALYZED"
          /\ analyzes[a].pc = "failing" /\ analyzes'[a].pc # "failing" =>
               /\ runs'[analyzes[a].run].status = "FAILED"
               /\ runs'[analyzes[a].run].errorMessage =
                    AnalysisFailed(analyzes[a].outcome[2])
               /\ analyzes'[a].pc = "reverting"
          /\ analyzes[a].pc = "reverting" /\ analyzes'[a].pc # "reverting" =>
               dealStatus' = "READY"
       ]_vars
  /\ []C28_Settled

====
